---- MODULE Spec2Model ----
(***************************************************************************)
(* The 2D rigid-circle physics engine of ballcollisiongemini.py ("basic")  *)
(* and ballcollisiongeminiwithui.py ("ui"): the Ball class and one frame   *)
(* of the simulation loop (forces, update, wall collisions, ball-ball      *)
(* collision).                                                             *)
(*                                                                         *)
(* Numbers.  The scripts compute in Python floats.  The model computes in  *)
(* exact rationals [n, d] (reduced, d > 0), so that the algebra of a step  *)
(* is the algebra of the source and nothing is rounded.  math.sqrt and     *)
(* Vector2.normalize are exact on the rationals whose square root is       *)
(* rational; a run that would need an irrational root is not continued     *)
(* (the guards HasSqrt below), so every behaviour of the model is a        *)
(* behaviour of the source in exact arithmetic.                            *)
(***************************************************************************)
EXTENDS Integers, Sequences, FiniteSets, TLC

(***************************************************************************)
(* Exact rational arithmetic.                                              *)
(***************************************************************************)
Abs(a) == IF a < 0 THEN -a ELSE a

RECURSIVE GCD(_, _)
GCD(a, b) == IF b = 0 THEN a ELSE GCD(b, a % b)

\* The reduced fraction n/d (d # 0).
R(n, d) ==
    LET g == GCD(Abs(n), Abs(d))
        s == IF d < 0 THEN -1 ELSE 1
    IN  [n |-> s * (n \div g), d |-> s * (d \div g)]

I(k) == [n |-> k, d |-> 1]

RAdd(p, q) ==
    LET g == GCD(p.d, q.d)
    IN  R(p.n * (q.d \div g) + q.n * (p.d \div g), (p.d \div g) * q.d)

RNeg(p) == [n |-> -p.n, d |-> p.d]

RSub(p, q) == RAdd(p, RNeg(q))

\* Cross-reduced first, so that the product of two reduced fractions is
\* computed without needless growth of the intermediate integers.
RMul(p, q) ==
    LET g1 == GCD(Abs(p.n), q.d)
        g2 == GCD(Abs(q.n), p.d)
        h1 == IF g1 = 0 THEN 1 ELSE g1
        h2 == IF g2 = 0 THEN 1 ELSE g2
    IN  R((p.n \div h1) * (q.n \div h2), (p.d \div h2) * (q.d \div h1))

\* p / q for q # 0 (the callers guard q = 0, where Python raises).
RDiv(p, q) == RMul(p, R(q.d, q.n))

RLt(p, q) == RSub(p, q).n < 0

RLe(p, q) == RSub(p, q).n <= 0

RIsZero(p) == p.n = 0

\* Floor of the square root of a natural number, by bisection.
RECURSIVE SqrtSearch(_, _, _)
SqrtSearch(lo, hi, k) ==
    IF lo >= hi THEN lo
    ELSE LET mid == (lo + hi + 1) \div 2
         IN  IF mid <= k \div mid THEN SqrtSearch(mid, hi, k)
             ELSE SqrtSearch(lo, mid - 1, k)

ISqrt(k) == IF k <= 0 THEN 0 ELSE SqrtSearch(1, k, k)

IsSquare(k) == k >= 0 /\ ISqrt(k) * ISqrt(k) = k

\* Whether math.sqrt(p) is rational, and its value then.
HasSqrt(p) == IsSquare(p.n) /\ IsSquare(p.d)

RSqrt(p) == [n |-> ISqrt(p.n), d |-> ISqrt(p.d)]

(***************************************************************************)
(* pygame.math.Vector2, as far as the scripts use it.                      *)
(***************************************************************************)
vector2(x, y) == [x |-> x, y |-> y]

Zero2 == vector2(I(0), I(0))

VAdd(u, v) == vector2(RAdd(u.x, v.x), RAdd(u.y, v.y))

VSub(u, v) == vector2(RSub(u.x, v.x), RSub(u.y, v.y))

VScale(u, k) == vector2(RMul(u.x, k), RMul(u.y, k))

VDivide(u, k) == vector2(RDiv(u.x, k), RDiv(u.y, k))

dot(u, v) == RAdd(RMul(u.x, v.x), RMul(u.y, v.y))

length_squared(u) == dot(u, u)

\* Vector2.normalize(): defined for a vector of non-zero length.
normalize(u) == VDivide(u, RSqrt(length_squared(u)))

(***************************************************************************)
(* Program constants of the two scripts.                                   *)
(***************************************************************************)
WIDTH == 800

HEIGHT == 600

GRAVITY_Y == 250

NumBalls == 2

\* 1e-6, the threshold of the scripts' "not (nearly) zero" tests, as 1/EpsDen.
EpsDen == 1000000

GRAVITY == vector2(I(0), I(GRAVITY_Y))

\* RESTITUTION: 1.0 in the ui script, 0.85 in the basic one.
RESTITUTION(s) == IF s = "ui" THEN I(1) ELSE R(85, 100)

\* FRICTION: 0.001 in the ui script, 0.005 in the basic one.
FRICTION(s) == IF s = "ui" THEN R(1, 1000) ELSE R(5, 1000)

\* q > 1e-6, without forming q.n * EpsDen.
GtEps(q) == q.n > q.d \div EpsDen

(***************************************************************************)
(* class Ball.                                                             *)
(***************************************************************************)
NoBall == [position |-> Zero2, velocity |-> Zero2, acceleration |-> Zero2,
           radius |-> I(0), mass |-> I(0), inv_mass |-> I(0)]

\* Mutant of BallInit: the test of the mass is missing.
M_BallInit(s, x, y, radius, mass, velocity, acceleration) ==
    IF RLe(radius, I(0)) THEN [err |-> "ValueError", ball |-> NoBall]
    ELSE [err |-> "none",
          ball |-> [position |-> vector2(x, y),
                    velocity |-> velocity,
                    acceleration |-> acceleration,
                    radius |-> radius,
                    mass |-> mass,
                    inv_mass |-> IF RLt(I(0), mass) THEN RDiv(I(1), mass)
                                 ELSE I(0)]]

\* Ball.__init__ on numeric arguments: the error it raises ("none" when it
\* returns) and the ball it builds.  The ui script accepts mass 0, the basic
\* script rejects it.
BallInit(s, x, y, radius, mass, velocity, acceleration) ==
    IF RLe(radius, I(0)) THEN [err |-> "ValueError", ball |-> NoBall]
    ELSE IF (IF s = "ui" THEN RLt(mass, I(0)) ELSE RLe(mass, I(0)))
    THEN [err |-> "ValueError", ball |-> NoBall]
    ELSE [err |-> "none",
          ball |-> [position |-> vector2(x, y),
                    velocity |-> velocity,
                    acceleration |-> acceleration,
                    radius |-> radius,
                    mass |-> mass,
                    inv_mass |-> IF RLt(I(0), mass) THEN RDiv(I(1), mass)
                                 ELSE I(0)]]

\* Mutant of BallUpdate: the position is advanced with the old velocity.
M_BallUpdate(b, t) ==
    IF RLt(t, I(0)) THEN [err |-> "ValueError", ball |-> b]
    ELSE [err |-> "none",
          ball |-> [b EXCEPT !.velocity = VAdd(b.velocity, VScale(b.acceleration, t)),
                             !.position = VAdd(b.position, VScale(b.velocity, t))]]

\* Ball.update(dt): semi-implicit Euler, or ValueError and no change.
BallUpdate(b, t) ==
    IF RLt(t, I(0)) THEN [err |-> "ValueError", ball |-> b]
    ELSE LET v == VAdd(b.velocity, VScale(b.acceleration, t))
         IN  [err |-> "none",
              ball |-> [b EXCEPT !.velocity = v,
                                 !.position = VAdd(b.position, VScale(v, t))]]

\* Ball.apply_force(force).
apply_force(b, force) ==
    IF RLt(I(0), b.inv_mass)
    THEN [b EXCEPT !.acceleration = VAdd(b.acceleration, VScale(force, b.inv_mass))]
    ELSE b

(***************************************************************************)
(* One frame of the simulation loop, per ball and per pair.                *)
(***************************************************************************)
\* The test that guards the friction force: length_squared() > 1e-6 in the
\* ui script, > 0 in the basic one.
Moving(s, b) ==
    IF s = "ui" THEN GtEps(length_squared(b.velocity))
    ELSE RLt(I(0), length_squared(b.velocity))

\* friction_force: -normalize(v) * |v|^2 * FRICTION, times the radius in the
\* ui script.
friction_force(s, b) ==
    LET f == VScale(normalize(b.velocity),
                    RNeg(RMul(length_squared(b.velocity), FRICTION(s))))
    IN  IF s = "ui" THEN VScale(f, b.radius) ELSE f

\* Mutant of ApplyForces: the acceleration is not reset.
M_ApplyForces(s, b) ==
    LET b1 == apply_force(b, VScale(GRAVITY, b.mass))
    IN  IF Moving(s, b)
        THEN apply_force(b1, friction_force(s, b1))
        ELSE b1

\* "Apply forces": the acceleration is reset, then gravity and friction are
\* applied through apply_force.
ApplyForces(s, b) ==
    LET b0 == [b EXCEPT !.acceleration = Zero2]
        b1 == apply_force(b0, VScale(GRAVITY, b.mass))
    IN  IF Moving(s, b)
        THEN apply_force(b1, friction_force(s, b1))
        ELSE b1

\* normalize() is rational wherever its value is used: apply_force drops the
\* friction force of a ball of inverse mass 0.
ForcesExact(s, b) ==
    (Moving(s, b) /\ RLt(I(0), b.inv_mass)) => HasSqrt(length_squared(b.velocity))

\* Mutant of WallsX: the right wall clamps the centre, not the edge.
M_WallsX(s, b) ==
    IF RLt(RSub(b.position.x, b.radius), I(0))
    THEN [b EXCEPT !.position.x = b.radius,
                   !.velocity.x = RMul(b.velocity.x, RNeg(RESTITUTION(s)))]
    ELSE IF RLt(I(WIDTH), RAdd(b.position.x, b.radius))
    THEN [b EXCEPT !.position.x = I(WIDTH),
                   !.velocity.x = RMul(b.velocity.x, RNeg(RESTITUTION(s)))]
    ELSE b

\* "Wall collisions": the horizontal walls' test, then the vertical ones'.
WallsX(s, b) ==
    IF RLt(RSub(b.position.x, b.radius), I(0))
    THEN [b EXCEPT !.position.x = b.radius,
                   !.velocity.x = RMul(b.velocity.x, RNeg(RESTITUTION(s)))]
    ELSE IF RLt(I(WIDTH), RAdd(b.position.x, b.radius))
    THEN [b EXCEPT !.position.x = RSub(I(WIDTH), b.radius),
                   !.velocity.x = RMul(b.velocity.x, RNeg(RESTITUTION(s)))]
    ELSE b

WallsY(s, b) ==
    IF RLt(RSub(b.position.y, b.radius), I(0))
    THEN [b EXCEPT !.position.y = IF s = "ui" THEN RAdd(b.radius, I(1))
                                  ELSE b.radius,
                   !.velocity.y = RMul(b.velocity.y, RNeg(RESTITUTION(s)))]
    ELSE IF RLt(I(HEIGHT), RAdd(b.position.y, b.radius))
    THEN [b EXCEPT !.position.y = RSub(I(HEIGHT), b.radius),
                   !.velocity.y = IF s = "ui" /\ ~RLt(I(0), b.velocity.y)
                                  THEN b.velocity.y
                                  ELSE RMul(b.velocity.y, RNeg(RESTITUTION(s)))]
    ELSE b

WallCollisions(s, b) == WallsY(s, WallsX(s, b))

\* Mutant of IsDragging: no ball is skipped.
M_IsDragging(k, d) == FALSE

\* "Skip physics for dragged ball": if ball is dragging_ball: continue.
\* d is dragging_ball, 0 when it is None.
IsDragging(k, d) == d = k

\* The detection test of a pair.
dist_vec(a, b) == VSub(b.position, a.position)

min_dist(a, b) == RAdd(a.radius, b.radius)

\* Mutant of Colliding: two balls that just touch count as colliding.
M_Colliding(s, a, b) ==
    LET dist_sq == length_squared(dist_vec(a, b))
        min_dist_sq == RMul(min_dist(a, b), min_dist(a, b))
    IN  /\ RLe(dist_sq, min_dist_sq)
        /\ IF s = "ui" THEN RLt(I(0), dist_sq) ELSE GtEps(dist_sq)

Colliding(s, a, b) ==
    LET dist_sq == length_squared(dist_vec(a, b))
        min_dist_sq == RMul(min_dist(a, b), min_dist(a, b))
    IN  /\ RLt(dist_sq, min_dist_sq)
        /\ IF s = "ui" THEN RLt(I(0), dist_sq) ELSE GtEps(dist_sq)

\* math.sqrt(dist_sq) of a colliding pair is rational.
PairExact(s, a, b) ==
    Colliding(s, a, b) => HasSqrt(length_squared(dist_vec(a, b)))

\* Mutant of Separate: the two shares are swapped.
M_Separate(a, b, normal, overlap, total) ==
    LET separation_a == VScale(normal, RDiv(RMul(overlap, b.inv_mass), total))
        separation_b == VScale(normal, RDiv(RMul(overlap, a.inv_mass), total))
    IN  [a |-> [a EXCEPT !.position = VSub(a.position, separation_a)],
         b |-> [b EXCEPT !.position = VAdd(b.position, separation_b)]]

\* "Resolve overlap": the two balls are moved apart along the normal, each by
\* its share of the inverse mass.  total is not 0 here.
Separate(a, b, normal, overlap, total) ==
    LET separation_a == VScale(normal, RDiv(RMul(overlap, a.inv_mass), total))
        separation_b == VScale(normal, RDiv(RMul(overlap, b.inv_mass), total))
    IN  [a |-> [a EXCEPT !.position = VSub(a.position, separation_a)],
         b |-> [b EXCEPT !.position = VAdd(b.position, separation_b)]]

\* Mutant of Impulse: ball b takes the impulse with ball a's inverse mass.
M_ImpulseMass(s, a, b, normal, vel_along_normal, total) ==
    LET impulse_scalar ==
            RDiv(RMul(RNeg(RAdd(I(1), RESTITUTION(s))), vel_along_normal), total)
        impulse_vec == VScale(normal, impulse_scalar)
    IN  [a |-> [a EXCEPT !.velocity = VSub(a.velocity, VScale(impulse_vec, a.inv_mass))],
         b |-> [b EXCEPT !.velocity = VAdd(b.velocity, VScale(impulse_vec, a.inv_mass))]]

\* Mutant of Impulse: the sign of the impulse scalar is lost.
M_ImpulseSign(s, a, b, normal, vel_along_normal, total) ==
    LET impulse_scalar ==
            RDiv(RMul(RAdd(I(1), RESTITUTION(s)), vel_along_normal), total)
        impulse_vec == VScale(normal, impulse_scalar)
    IN  [a |-> [a EXCEPT !.velocity = VSub(a.velocity, VScale(impulse_vec, a.inv_mass))],
         b |-> [b EXCEPT !.velocity = VAdd(b.velocity, VScale(impulse_vec, b.inv_mass))]]

\* "Collision response": the impulse along the normal.  total is not 0 here.
Impulse(s, a, b, normal, vel_along_normal, total) ==
    LET impulse_scalar ==
            RDiv(RMul(RNeg(RAdd(I(1), RESTITUTION(s))), vel_along_normal), total)
        impulse_vec == VScale(normal, impulse_scalar)
    IN  [a |-> [a EXCEPT !.velocity = VSub(a.velocity, VScale(impulse_vec, a.inv_mass))],
         b |-> [b EXCEPT !.velocity = VAdd(b.velocity, VScale(impulse_vec, b.inv_mass))]]

\* Mutant of Approaching: the test is "not 0" instead of "< 0".
M_Approaching(vel_along_normal) == ~RIsZero(vel_along_normal)

\* "Only resolve if balls are moving towards each other along the normal".
Approaching(vel_along_normal) == RLt(vel_along_normal, I(0))

\* The body of the ball-ball collision code for one pair: the error raised
\* ("none" when there is none), the two balls afterwards and whether the
\* impulse branch was entered.  With total_inv_mass = 0 the basic script
\* leaves the pair (continue); the ui script skips the separation and, for an
\* approaching pair, divides the impulse by total_inv_mass.
ResolvePair(s, a, b) ==
    IF ~Colliding(s, a, b) THEN [err |-> "none", a |-> a, b |-> b, hit |-> FALSE]
    ELSE
    LET dv == dist_vec(a, b)
        distance == RSqrt(length_squared(dv))
        normal == VDivide(dv, distance)
        overlap == RSub(min_dist(a, b), distance)
        total == RAdd(a.inv_mass, b.inv_mass)
        vel_along_normal == dot(VSub(b.velocity, a.velocity), normal)
    IN  IF RIsZero(total) /\ s # "ui"
        THEN [err |-> "none", a |-> a, b |-> b, hit |-> FALSE]
        ELSE
        LET sep == IF RLt(I(0), total) THEN Separate(a, b, normal, overlap, total)
                   ELSE [a |-> a, b |-> b]
        IN  IF ~Approaching(vel_along_normal)
            THEN [err |-> "none", a |-> sep.a, b |-> sep.b, hit |-> FALSE]
            ELSE IF RIsZero(total)
            THEN [err |-> "ZeroDivisionError", a |-> sep.a, b |-> sep.b, hit |-> TRUE]
            ELSE LET imp == Impulse(s, sep.a, sep.b, normal, vel_along_normal, total)
                 IN  [err |-> "none", a |-> imp.a, b |-> imp.b, hit |-> TRUE]

(***************************************************************************)
(* Bounds and inputs of the model.                                         *)
(***************************************************************************)
\* Frames run after construction.
MaxFrames == 2

Scripts == {"ui", "basic"}

\* clock.tick(60) / 1000.0 capped at 0.05: 0.02 and the cap.
DtSet == {R(1, 50), R(1, 20)}

MassSet == {I(-1), I(0), I(10), I(20)}

RadiusSet == {I(0), I(10), I(25)}

\* Position and velocity of ball 1: at rest and moving in mid-field, and
\* across each of the four walls, moving outward and moving inward.
Kin1 ==
    { <<300, 300, 0, 0>>, <<300, 300, 200, 0>>, <<300, 300, -200, 0>>,
      <<10, 300, -200, 0>>, <<10, 300, 200, 0>>,
      <<790, 300, 200, 0>>, <<790, 300, -200, 0>>,
      <<300, 10, 0, -200>>, <<300, 10, 0, 200>>,
      <<300, 590, 0, 200>>, <<300, 590, 0, -200>> }

\* Ball 2, as an offset from ball 1's position and a velocity: overlapping
\* ball 1 from the right, from below and obliquely (along 3:4, at rest and
\* moving along the line of centres), coincident with it, and clear of it.
Kin2 ==
    { <<30, 0, 0, 0>>, <<30, 0, -200, 0>>, <<30, 0, 200, 0>>,
      <<0, 40, 0, -200>>, <<0, 40, 0, 0>>,
      <<24, 32, 0, 0>>, <<30, 40, -120, -160>>,
      <<0, 0, 0, 0>>, <<100, 0, 0, 0>> }

\* Beside a ball 1 that is across a wall, ball 2 is at rest.
Kin2AtWall == { <<30, 0, 0, 0>>, <<100, 0, 0, 0>> }

InField(b) ==
    /\ b.position.x.n \in 25..(WIDTH - 25)
    /\ b.position.y.n \in 25..(HEIGHT - 25)

\* The (x, y, vx, vy) a construction of ball k may be given.
Kin(k, bs) ==
    IF k = 1 THEN Kin1
    ELSE { <<bs[1].position.x.n + o[1], bs[1].position.y.n + o[2], o[3], o[4]>> :
           o \in IF InField(bs[1]) THEN Kin2 ELSE Kin2AtWall }

\* Exact arithmetic stays within TLC's integers.  A frame starts only from
\* velocities whose denominators are at most MaxVelDen and positions whose
\* denominators are at most MaxPosDen; a ball is updated only if the
\* denominators of its acceleration are at most MaxAccDen; a pair is resolved
\* only if the denominators of the two positions, of the two velocities and
\* of dist_vec, and the product of dist_vec's two denominators, are at most
\* MaxPairDen.  A run
\* that leaves this range is not continued.
MaxVelDen == 1

MaxPosDen == 10

MaxAccDen == 32

MaxPairDen == 256

SmallDen(v, cap) == v.x.d <= cap /\ v.y.d <= cap

SmallBalls(bs) ==
    \A k \in 1..NumBalls :
        SmallDen(bs[k].position, MaxPosDen) /\ SmallDen(bs[k].velocity, MaxVelDen)

PairInRange(a, b) ==
    /\ SmallDen(a.position, MaxPairDen)
    /\ SmallDen(b.position, MaxPairDen)
    /\ SmallDen(dist_vec(a, b), MaxPairDen)
    /\ dist_vec(a, b).x.d * dist_vec(a, b).y.d <= MaxPairDen
    /\ SmallDen(a.velocity, MaxPairDen)
    /\ SmallDen(b.velocity, MaxPairDen)

(***************************************************************************)
(* The state machine.                                                      *)
(***************************************************************************)
VARIABLES
    script,           \* which of the two scripts runs
    balls,            \* the list balls
    pc,               \* the place in the script
    i,                \* the ball being constructed / the physics loop's index
    dt,               \* the frame's time step
    frame,            \* frames started
    err,              \* the exception that ended the run, "none" while it runs
    collision_count,  \* the ui script's counter
    pre,              \* balls before the last step
    last,             \* the last step taken and, for a construction, its arguments
    dragging_ball,    \* basic script: index of the dragged ball, 0 for None
    drag_offset,      \* basic script: ball.position - mouse_pos at the press
    last_mouse_pos,   \* basic script: the last pointer position, NoPos for None
    mouse_pos,        \* basic script: event.pos of the last mouse event
    events,           \* mouse events handled so far
    stepped,          \* balls the physics loop's body has run for in this frame
    pre_drag          \* the dragging state before the last step

vars == <<script, balls, pc, i, dt, frame, err, collision_count, pre, last,
          dragging_ball, drag_offset, last_mouse_pos, mouse_pos, events,
          stepped, pre_drag>>

\* last_mouse_pos = None.
NoPos == vector2(I(-1), I(-1))

DragState ==
    [dragging_ball |-> dragging_ball, drag_offset |-> drag_offset,
     last_mouse_pos |-> last_mouse_pos]

\* A step that handles no mouse event leaves the dragging state alone.
KeepDrag ==
    /\ pre_drag' = DragState
    /\ UNCHANGED <<dragging_ball, drag_offset, last_mouse_pos, mouse_pos, events>>

NoArgs == [radius |-> I(0), mass |-> I(0)]

Init ==
    /\ script \in Scripts
    /\ balls = [k \in 1..NumBalls |-> NoBall]
    /\ pc = "construct"
    /\ i = 1
    /\ dt = I(0)
    /\ frame = 0
    /\ err = "none"
    /\ collision_count = 0
    /\ pre = balls
    /\ last = [op |-> "init", who |-> 0, args |-> NoArgs]
    /\ dragging_ball = 0
    /\ drag_offset = Zero2
    /\ last_mouse_pos = NoPos
    /\ mouse_pos = NoPos
    /\ events = 0
    /\ stepped = {}
    /\ pre_drag = DragState

\* Ball(x, y, radius, color, mass=..., velocity=...): the next ball of the list.
Construct ==
    /\ pc = "construct"
    /\ \E kin \in Kin(i, balls), radius \in RadiusSet, mass \in MassSet :
         LET r == BallInit(script, I(kin[1]), I(kin[2]), radius, mass,
                           vector2(I(kin[3]), I(kin[4])), Zero2)
         IN  /\ last' = [op |-> "construct", who |-> i,
                         args |-> [radius |-> radius, mass |-> mass]]
             /\ pre' = balls
             /\ err' = r.err
             /\ IF r.err # "none"
                THEN /\ pc' = "crashed"
                     /\ UNCHANGED <<balls, i>>
                ELSE /\ balls' = [balls EXCEPT ![i] = r.ball]
                     /\ IF i < NumBalls
                        THEN /\ i' = i + 1
                             /\ pc' = "construct"
                        ELSE /\ i' = 1
                             /\ pc' = "tick"
    /\ UNCHANGED <<script, dt, frame, collision_count, stepped>>
    /\ KeepDrag

\* dt = min(clock.tick(60) / 1000.0, 0.05), then the physics loop starts.
Tick ==
    /\ pc = "tick"
    /\ frame < MaxFrames
    /\ SmallBalls(balls)
    /\ dt' \in DtSet
    /\ frame' = frame + 1
    /\ pc' = "forces"
    /\ i' = 1
    /\ pre' = balls
    /\ last' = [op |-> "tick", who |-> 0, args |-> NoArgs]
    /\ stepped' = {}
    /\ KeepDrag
    /\ UNCHANGED <<script, balls, err, collision_count>>

\* The physics loop's body for balls[i], in its three parts.
Forces ==
    /\ pc = "forces"
    /\ ~IsDragging(i, dragging_ball)
    /\ ForcesExact(script, balls[i])
    /\ balls' = [balls EXCEPT ![i] = ApplyForces(script, balls[i])]
    /\ pc' = "update"
    /\ pre' = balls
    /\ last' = [op |-> "forces", who |-> i, args |-> NoArgs]
    /\ KeepDrag
    /\ UNCHANGED <<script, i, dt, frame, err, collision_count, stepped>>

Update ==
    /\ pc = "update"
    /\ SmallDen(balls[i].acceleration, MaxAccDen)
    /\ LET r == BallUpdate(balls[i], dt)
       IN  /\ balls' = [balls EXCEPT ![i] = r.ball]
           /\ err' = r.err
           /\ pc' = IF r.err = "none" THEN "walls" ELSE "crashed"
    /\ pre' = balls
    /\ last' = [op |-> "update", who |-> i, args |-> NoArgs]
    /\ KeepDrag
    /\ UNCHANGED <<script, i, dt, frame, collision_count, stepped>>

Walls ==
    /\ pc = "walls"
    /\ balls' = [balls EXCEPT ![i] = WallCollisions(script, balls[i])]
    /\ IF i < NumBalls
       THEN /\ i' = i + 1
            /\ pc' = "forces"
       ELSE /\ i' = 1
            /\ pc' = "collide"
    /\ pre' = balls
    /\ last' = [op |-> "walls", who |-> i, args |-> NoArgs]
    /\ stepped' = stepped \cup {i}
    /\ KeepDrag
    /\ UNCHANGED <<script, dt, frame, err, collision_count>>

\* The ball-ball collision of the pair (balls[1], balls[2]).
Collide ==
    /\ pc = "collide"
    /\ PairInRange(balls[1], balls[2])
    /\ PairExact(script, balls[1], balls[2])
    /\ LET r == ResolvePair(script, balls[1], balls[2])
       IN  /\ balls' = [balls EXCEPT ![1] = r.a, ![2] = r.b]
           /\ err' = r.err
           /\ collision_count' = IF script = "ui" /\ r.hit
                                 THEN collision_count + 1
                                 ELSE collision_count
           /\ pc' = IF r.err = "none" THEN "draw" ELSE "crashed"
    /\ pre' = balls
    /\ last' = [op |-> "collide", who |-> 0, args |-> NoArgs]
    /\ KeepDrag
    /\ UNCHANGED <<script, i, dt, frame, stepped>>

\* Drawing reads the balls; the loop goes round.
Draw ==
    /\ pc = "draw"
    /\ pc' = "tick"
    /\ pre' = balls
    /\ last' = [op |-> "draw", who |-> 0, args |-> NoArgs]
    /\ KeepDrag
    /\ UNCHANGED <<script, balls, i, dt, frame, err, collision_count, stepped>>

Next == Construct \/ Tick \/ Forces \/ Update \/ Walls \/ Collide \/ Draw

Spec == Init /\ [][Next]_vars

(***************************************************************************)
(* The Ball class called directly: after construction, update(dt) and      *)
(* apply_force(force) on either ball, with any numeric argument.  dt holds *)
(* the argument of the last update and frame counts the calls.             *)
(***************************************************************************)
MaxCalls == 2

ApiDtSet == {R(-1, 20), I(0), R(1, 20)}

ForceSet == {vector2(I(30), I(-60))}

ApiUpdate ==
    /\ pc = "tick"
    /\ frame < MaxCalls
    /\ \E k \in 1..NumBalls, t \in ApiDtSet :
         LET r == BallUpdate(balls[k], t)
         IN  /\ balls' = [balls EXCEPT ![k] = r.ball]
             /\ err' = r.err
             /\ pc' = IF r.err = "none" THEN "tick" ELSE "crashed"
             /\ dt' = t
             /\ last' = [op |-> "update", who |-> k, args |-> NoArgs]
    /\ frame' = frame + 1
    /\ pre' = balls
    /\ KeepDrag
    /\ UNCHANGED <<script, i, collision_count, stepped>>

ApiApplyForce ==
    /\ pc = "tick"
    /\ frame < MaxCalls
    /\ \E k \in 1..NumBalls, f \in ForceSet :
         /\ balls' = [balls EXCEPT ![k] = apply_force(balls[k], f)]
         /\ last' = [op |-> "apply_force", who |-> k, args |-> NoArgs]
    /\ frame' = frame + 1
    /\ pre' = balls
    /\ KeepDrag
    /\ UNCHANGED <<script, pc, i, dt, err, collision_count, stepped>>

NextApi == Construct \/ ApiUpdate \/ ApiApplyForce

SpecApi == Init /\ [][NextApi]_vars

(***************************************************************************)
(* The simulation loop from two balls placed in the field, with the basic  *)
(* script's mouse events.  The events of a frame are handled at the top of *)
(* the loop, before the time step; the ui script's loop handles none.      *)
(***************************************************************************)
\* Mouse events handled in a run.
MaxEvents == 3

\* event.pos: the centre of ball 1, a point beside it, a point that is also
\* within a ball 2 at offset 30, and a point near the left wall.
MouseSet ==
    { vector2(I(30), I(300)), vector2(I(34), I(300)),
      vector2(I(50), I(300)), vector2(I(5), I(300)) }

DragKin1 == { <<30, 300, 0, 0>>, <<30, 300, 200, 0>> }

DragKin2 == { <<60, 300, 0, 0>>, <<60, 300, -200, 0>>, <<130, 300, 0, 0>> }

DragMassSet == {I(10), I(20)}

DragRadius == 25

\* (mouse_pos - ball.position).length() <= ball.radius
Hit(b, p) == RLe(length_squared(VSub(p, b.position)), RMul(b.radius, b.radius))

\* The press test is computed only for positions whose denominators are at
\* most MaxPosDen.
HitInRange(bs) == \A k \in 1..NumBalls : SmallDen(bs[k].position, MaxPosDen)

\* Mutant of PressLoop: the loop has no break.
RECURSIVE M_PressLoop(_, _, _)
M_PressLoop(bs, p, k) ==
    IF k > NumBalls THEN [hit |-> 0, balls |-> bs]
    ELSE LET r == M_PressLoop(bs, p, k + 1)
         IN  IF Hit(bs[k], p)
             THEN [hit |-> IF r.hit # 0 THEN r.hit ELSE k,
                   balls |-> [r.balls EXCEPT ![k].velocity = Zero2]]
             ELSE r

\* MOUSEBUTTONDOWN: "for ball in balls" from balls[k] on; the first ball under
\* the pointer is taken, its velocity zeroed, and the loop left.
RECURSIVE PressLoop(_, _, _)
PressLoop(bs, p, k) ==
    IF k > NumBalls THEN [hit |-> 0, balls |-> bs]
    ELSE IF Hit(bs[k], p)
    THEN [hit |-> k, balls |-> [bs EXCEPT ![k].velocity = Zero2]]
    ELSE PressLoop(bs, p, k + 1)

\* max(dt, 1e-6)
MaxDtEps(t) == IF GtEps(t) THEN t ELSE R(1, EpsDen)

\* drag_velocity = (mouse_pos - last_mouse_pos) / max(dt, 1e-6)
drag_velocity(p, q, t) == VDivide(VSub(p, q), MaxDtEps(t))

InitDrag ==
    /\ script \in Scripts
    /\ \E k1 \in DragKin1, k2 \in DragKin2, m1 \in DragMassSet, m2 \in DragMassSet :
         balls = << BallInit(script, I(k1[1]), I(k1[2]), I(DragRadius), m1,
                             vector2(I(k1[3]), I(k1[4])), Zero2).ball,
                    BallInit(script, I(k2[1]), I(k2[2]), I(DragRadius), m2,
                             vector2(I(k2[3]), I(k2[4])), Zero2).ball >>
    /\ pc = "tick"
    /\ i = 1
    /\ dt = I(0)
    /\ frame = 0
    /\ err = "none"
    /\ collision_count = 0
    /\ pre = balls
    /\ last = [op |-> "init", who |-> 0, args |-> NoArgs]
    /\ dragging_ball = 0
    /\ drag_offset = Zero2
    /\ last_mouse_pos = NoPos
    /\ mouse_pos = NoPos
    /\ events = 0
    /\ stepped = {}
    /\ pre_drag = DragState

\* MOUSEBUTTONDOWN with button 1.
MouseDown ==
    /\ script = "basic"
    /\ pc = "tick"
    /\ events < MaxEvents
    /\ HitInRange(balls)
    /\ \E p \in MouseSet :
         LET r == PressLoop(balls, p, 1)
         IN  /\ mouse_pos' = p
             /\ balls' = r.balls
             /\ IF r.hit # 0
                THEN /\ dragging_ball' = r.hit
                     /\ drag_offset' = VSub(balls[r.hit].position, p)
                     /\ last_mouse_pos' = p
                ELSE UNCHANGED <<dragging_ball, drag_offset, last_mouse_pos>>
    /\ events' = events + 1
    /\ pre' = balls
    /\ pre_drag' = DragState
    /\ last' = [op |-> "mousedown", who |-> 0, args |-> NoArgs]
    /\ UNCHANGED <<script, pc, i, dt, frame, err, collision_count, stepped>>

\* MOUSEBUTTONUP with button 1.  dt is a local of the function that is first
\* assigned by the time step of the first frame: read before that, it raises
\* UnboundLocalError.
MouseUp ==
    /\ script = "basic"
    /\ pc = "tick"
    /\ events < MaxEvents
    /\ \E p \in MouseSet :
         IF dragging_ball # 0 /\ last_mouse_pos # NoPos
         THEN /\ mouse_pos' = p
              /\ IF frame = 0
                 THEN /\ err' = "UnboundLocalError"
                      /\ pc' = "crashed"
                      /\ UNCHANGED <<balls, dragging_ball, last_mouse_pos>>
                 ELSE /\ balls' = [balls EXCEPT ![dragging_ball].velocity =
                                       drag_velocity(p, last_mouse_pos, dt)]
                      /\ dragging_ball' = 0
                      /\ last_mouse_pos' = NoPos
                      /\ UNCHANGED <<err, pc>>
         ELSE /\ dragging_ball' = 0
              /\ last_mouse_pos' = NoPos
              /\ UNCHANGED <<balls, mouse_pos, err, pc>>
    /\ events' = events + 1
    /\ pre' = balls
    /\ pre_drag' = DragState
    /\ last' = [op |-> "mouseup", who |-> 0, args |-> NoArgs]
    /\ UNCHANGED <<script, i, dt, frame, collision_count, stepped, drag_offset>>

\* MOUSEMOTION.
MouseMotion ==
    /\ script = "basic"
    /\ pc = "tick"
    /\ events < MaxEvents
    /\ \E p \in MouseSet :
         IF dragging_ball # 0
         THEN /\ mouse_pos' = p
              /\ balls' = [balls EXCEPT ![dragging_ball].position = VAdd(p, drag_offset)]
              /\ last_mouse_pos' = p
         ELSE UNCHANGED <<mouse_pos, balls, last_mouse_pos>>
    /\ events' = events + 1
    /\ pre' = balls
    /\ pre_drag' = DragState
    /\ last' = [op |-> "mousemotion", who |-> 0, args |-> NoArgs]
    /\ UNCHANGED <<script, pc, i, dt, frame, err, collision_count, stepped,
                   dragging_ball, drag_offset>>

\* The physics loop's body for the dragged ball: continue.
SkipDragged ==
    /\ pc = "forces"
    /\ IsDragging(i, dragging_ball)
    /\ IF i < NumBalls
       THEN /\ i' = i + 1
            /\ pc' = "forces"
       ELSE /\ i' = 1
            /\ pc' = "collide"
    /\ pre' = balls
    /\ last' = [op |-> "skip", who |-> i, args |-> NoArgs]
    /\ KeepDrag
    /\ UNCHANGED <<script, balls, dt, frame, err, collision_count, stepped>>

NextDrag ==
    \/ MouseDown \/ MouseUp \/ MouseMotion
    \/ Tick \/ Forces \/ SkipDragged \/ Update \/ Walls \/ Collide \/ Draw

SpecDrag == InitDrag /\ [][NextDrag]_vars

(***************************************************************************)
(* The ball-ball collision code applied once to a pair of balls, drawn     *)
(* from pairs at, near and beyond the two ends of the detection test.      *)
(***************************************************************************)
\* The finest offset of the pairs is 1 / 2^NearBits.
NearBits == 10

RECURSIVE Pow2(_)
Pow2(k) == IF k = 0 THEN 1 ELSE 2 * Pow2(k - 1)

\* Ball 2's offset from ball 1: coincident, within and just beyond the basic
\* script's 1e-6, overlapping, touching (along an axis and along 3:4), clear.
PairOffsets ==
    { Zero2, vector2(R(1, Pow2(NearBits)), I(0)), vector2(I(0), R(1, Pow2(NearBits))),
      vector2(R(1, Pow2(NearBits - 1)), I(0)),
      vector2(I(12), I(0)), vector2(I(20), I(0)), vector2(I(12), I(16)),
      vector2(I(30), I(0)) }

\* The radius of the pair's two balls.
PairRadius == 10

PairVelocities == { <<0, 0>>, <<200, -200>>, <<-200, 200>> }

PairMassSet == {I(0), I(10), I(20)}

InitPair ==
    /\ script \in Scripts
    /\ \E o \in PairOffsets, v \in PairVelocities, m1 \in PairMassSet, m2 \in PairMassSet :
         LET a == BallInit(script, I(300), I(300), I(PairRadius), m1,
                           vector2(I(v[1]), I(0)), Zero2)
             b == BallInit(script, RAdd(I(300), o.x), RAdd(I(300), o.y), I(PairRadius), m2,
                           vector2(I(v[2]), I(0)), Zero2)
         IN  /\ a.err = "none"
             /\ b.err = "none"
             /\ balls = <<a.ball, b.ball>>
    /\ pc = "collide"
    /\ i = 1
    /\ dt = I(0)
    /\ frame = 0
    /\ err = "none"
    /\ collision_count = 0
    /\ pre = balls
    /\ last = [op |-> "init", who |-> 0, args |-> NoArgs]
    /\ dragging_ball = 0
    /\ drag_offset = Zero2
    /\ last_mouse_pos = NoPos
    /\ mouse_pos = NoPos
    /\ events = 0
    /\ stepped = {}
    /\ pre_drag = DragState

\* The ball-ball collision of the pair, on the pair as drawn.
CollidePair ==
    /\ pc = "collide"
    /\ frame = 0
    /\ PairExact(script, balls[1], balls[2])
    /\ LET r == ResolvePair(script, balls[1], balls[2])
       IN  /\ balls' = [balls EXCEPT ![1] = r.a, ![2] = r.b]
           /\ err' = r.err
           /\ collision_count' = IF script = "ui" /\ r.hit
                                 THEN collision_count + 1
                                 ELSE collision_count
           /\ pc' = IF r.err = "none" THEN "draw" ELSE "crashed"
    /\ pre' = balls
    /\ last' = [op |-> "collide", who |-> 0, args |-> NoArgs]
    /\ KeepDrag
    /\ UNCHANGED <<script, i, dt, frame, stepped>>

NextPair == CollidePair

SpecPair == InitPair /\ [][NextPair]_vars

(***************************************************************************)
(* Properties.  pre is the list balls before the last step and last names  *)
(* that step, so each property of a step is a predicate of one state.      *)
(***************************************************************************)
FrameSteps == {"forces", "update", "walls", "collide"}

Immovable(b) == RIsZero(b.inv_mass)

SameKinematics(b, c) == b.position = c.position /\ b.velocity = c.velocity

\* C1: a body of mass 0 (inverse mass 0) changes neither its velocity nor its
\* position under apply_force, update, the wall collisions or the ball-ball
\* collision, in any frame and for any velocity and position it has.
C1_ImmovableBodyNeverMoves ==
    \A k \in 1..NumBalls :
        (last.op \in FrameSteps /\ Immovable(pre[k]))
            => SameKinematics(balls[k], pre[k])

\* Whether Ball.__init__ is to reject the arguments, as the claim has it
\* (radius <= 0 or mass < 0) and as the scripts have it (the basic script
\* rejects mass 0 too).
RejectedAsClaimed(a) == RLe(a.radius, I(0)) \/ RLt(a.mass, I(0))

RejectedPerScript(a) ==
    RejectedAsClaimed(a) \/ (script = "basic" /\ RIsZero(a.mass))

\* The inverse mass of the ball a construction built: 1/mass, or 0 for mass 0.
InverseMassOf(a, b) ==
    /\ RLt(I(0), a.mass) => RMul(b.inv_mass, a.mass) = I(1)
    /\ RIsZero(a.mass) => b.inv_mass = I(0)

InverseMassNeverNegative == \A k \in 1..NumBalls : ~RLt(balls[k].inv_mass, I(0))

C3_UpdateContract ==
    last.op = "update" =>
        LET b == pre[last.who]
            c == balls[last.who]
        IN  /\ \A k \in 1..NumBalls : k # last.who => balls[k] = pre[k]
            /\ IF RLt(dt, I(0))
               THEN err = "ValueError" /\ c = b
               ELSE /\ err = "none"
                    /\ c.velocity = VAdd(b.velocity, VScale(b.acceleration, dt))
                    /\ c.position = VAdd(b.position, VScale(c.velocity, dt))
                    /\ c.acceleration = b.acceleration

\* update(dt) was called with dt < 0 on a ball that has an acceleration and
\* has been moved by an earlier update, and raised.
C3_Witness ==
    /\ last.op = "update"
    /\ RLt(dt, I(0))
    /\ err = "ValueError"
    /\ frame = MaxCalls
    /\ balls[last.who].acceleration # Zero2

\* The ball lies within the world rectangle on all four edges.
InsideWorld(b) ==
    /\ RLe(I(0), RSub(b.position.x, b.radius))
    /\ RLe(RAdd(b.position.x, b.radius), I(WIDTH))
    /\ RLe(I(0), RSub(b.position.y, b.radius))
    /\ RLe(RAdd(b.position.y, b.radius), I(HEIGHT))

\* C4: after the wall collisions of a ball, whatever its position and
\* velocity were, position.x - radius >= 0, position.x + radius <= WIDTH,
\* position.y - radius >= 0 and position.y + radius <= HEIGHT.
C4_BoundaryContainment ==
    last.op = "walls" => InsideWorld(balls[last.who])

\* A ball that was across the right wall and across no other has been
\* clamped by the wall collisions.
C4_Witness ==
    /\ last.op = "walls"
    /\ RLt(I(WIDTH), RAdd(pre[last.who].position.x, pre[last.who].radius))
    /\ balls[last.who].position.x # pre[last.who].position.x
    /\ balls[last.who].position.y = pre[last.who].position.y

\* The velocity component a wall is to leave behind, as the claim has it:
\* negated and scaled by the restitution if it pointed out of bounds, kept
\* otherwise.
Reflected(s, v, outward) == IF outward THEN RMul(v, RNeg(RESTITUTION(s))) ELSE v

\* C5: when the wall collisions clamp a ball on an axis, the velocity on that
\* axis is negated and scaled by the restitution only if it points out of
\* bounds; a ball clamped while moving inward keeps it.  For all four walls.
C5_ReflectOnlyWhenOutward ==
    last.op = "walls" =>
        LET b == pre[last.who]
            c == balls[last.who]
            left == RLt(RSub(b.position.x, b.radius), I(0))
            right == RLt(I(WIDTH), RAdd(b.position.x, b.radius))
            top == RLt(RSub(b.position.y, b.radius), I(0))
            bottom == RLt(I(HEIGHT), RAdd(b.position.y, b.radius))
        IN  /\ left => c.velocity.x = Reflected(script, b.velocity.x, b.velocity.x.n < 0)
            /\ right => c.velocity.x = Reflected(script, b.velocity.x, b.velocity.x.n > 0)
            /\ top => c.velocity.y = Reflected(script, b.velocity.y, b.velocity.y.n < 0)
            /\ bottom => c.velocity.y = Reflected(script, b.velocity.y, b.velocity.y.n > 0)

\* C6: for an overlapping pair of two immovable bodies, no separation is
\* applied and the velocity resolution does nothing: the step ends without
\* an error and with both positions and velocities as they were.
C6_BothImmovableNoOp ==
    ( /\ last.op = "collide"
      /\ Colliding(script, pre[1], pre[2])
      /\ Immovable(pre[1])
      /\ Immovable(pre[2]) )
        => /\ err = "none"
           /\ SameKinematics(balls[1], pre[1])
           /\ SameKinematics(balls[2], pre[2])

\* The relative velocity along dist_vec: vel_along_normal times the distance.
VelAlong(a, b, d) == dot(VSub(b.velocity, a.velocity), d)

RAbs(p) == [n |-> Abs(p.n), d |-> p.d]

\* C7: for a colliding pair whose relative velocity along the normal is >= 0,
\* the resolution changes neither velocity; only the positions may change.
C7_SeparatingPairKeepsVelocities ==
    ( /\ last.op = "collide"
      /\ Colliding(script, pre[1], pre[2])
      /\ ~RLt(VelAlong(pre[1], pre[2], dist_vec(pre[1], pre[2])), I(0)) )
        => /\ err = "none"
           /\ balls[1].velocity = pre[1].velocity
           /\ balls[2].velocity = pre[2].velocity

\* A colliding pair that was moving apart was separated.
C7_Witness ==
    /\ last.op = "collide"
    /\ Colliding(script, pre[1], pre[2])
    /\ RLt(I(0), VelAlong(pre[1], pre[2], dist_vec(pre[1], pre[2])))
    /\ balls[1].position # pre[1].position
    /\ balls[2].position # pre[2].position
    /\ balls[1].velocity = pre[1].velocity

Momentum(bs) ==
    VAdd(VScale(bs[1].velocity, bs[1].mass), VScale(bs[2].velocity, bs[2].mass))

\* C8: for two bodies of finite mass resolved as a colliding pair with
\* restitution 1.0, the total momentum m1*v1 + m2*v2 is the same after the
\* impulse as before it.
C8_MomentumConserved ==
    ( /\ last.op = "collide"
      /\ RESTITUTION(script) = I(1)
      /\ Colliding(script, pre[1], pre[2])
      /\ ~Immovable(pre[1])
      /\ ~Immovable(pre[2]) )
        => Momentum(balls) = Momentum(pre)

\* An impulse was applied to two bodies of different finite masses along an
\* oblique normal.
C8_Witness ==
    /\ last.op = "collide"
    /\ RESTITUTION(script) = I(1)
    /\ ~Immovable(pre[1])
    /\ ~Immovable(pre[2])
    /\ pre[1].mass # pre[2].mass
    /\ balls[1].velocity.x # pre[1].velocity.x
    /\ balls[2].velocity.y # pre[2].velocity.y

\* C9: for an approaching colliding pair with a movable body, the relative
\* velocity along the normal after the impulse is, in magnitude, at most the
\* restitution times what it was before (both taken along the normal of the
\* detection).
C9_RestitutionBound ==
    LET d == dist_vec(pre[1], pre[2])
    IN  ( /\ last.op = "collide"
          /\ Colliding(script, pre[1], pre[2])
          /\ RLt(VelAlong(pre[1], pre[2], d), I(0))
          /\ ~(Immovable(pre[1]) /\ Immovable(pre[2])) )
            => /\ err = "none"
               /\ RLe(RAbs(VelAlong(balls[1], balls[2], d)),
                      RMul(RESTITUTION(script), RAbs(VelAlong(pre[1], pre[2], d))))

\* An impulse was applied between an immovable and a movable body: the
\* movable one's velocity has changed.
C9_Witness ==
    /\ last.op = "collide"
    /\ Colliding(script, pre[1], pre[2])
    /\ RLt(VelAlong(pre[1], pre[2], dist_vec(pre[1], pre[2])), I(0))
    /\ Immovable(pre[1])
    /\ ~Immovable(pre[2])
    /\ balls[2].velocity # pre[2].velocity

\* C10: on a detected collision with a movable body, ball a is displaced by
\* overlap * inv_mass_a / total against the normal and ball b by
\* overlap * inv_mass_b / total along it, so a body of inverse mass 0 stays,
\* equal masses take equal shares, and the centres end radius_a + radius_b
\* apart (the vector between them is the unit normal times that sum).
C10_SeparationShares ==
    ( /\ last.op = "collide"
      /\ Colliding(script, pre[1], pre[2])
      /\ ~(Immovable(pre[1]) /\ Immovable(pre[2])) )
        => LET a == pre[1]
               b == pre[2]
               d == dist_vec(a, b)
               distance == RSqrt(length_squared(d))
               normal == VDivide(d, distance)
               overlap == RSub(min_dist(a, b), distance)
               total == RAdd(a.inv_mass, b.inv_mass)
               moved_a == VSub(a.position, balls[1].position)
               moved_b == VSub(balls[2].position, b.position)
           IN  /\ VScale(moved_a, total) = VScale(normal, RMul(overlap, a.inv_mass))
               /\ VScale(moved_b, total) = VScale(normal, RMul(overlap, b.inv_mass))
               /\ Immovable(a) => balls[1].position = a.position
               /\ Immovable(b) => balls[2].position = b.position
               /\ a.mass = b.mass => moved_a = moved_b
               /\ length_squared(normal) = I(1)
               /\ dist_vec(balls[1], balls[2]) = VScale(normal, min_dist(a, b))

\* Two bodies of different finite masses were separated along an oblique
\* normal.
C10_Witness ==
    /\ last.op = "collide"
    /\ Colliding(script, pre[1], pre[2])
    /\ ~Immovable(pre[1])
    /\ ~Immovable(pre[2])
    /\ pre[1].mass # pre[2].mass
    /\ balls[1].position.x # pre[1].position.x
    /\ balls[1].position.y # pre[1].position.y
    /\ balls[2].position # pre[2].position

\* The detection test as the claim states it: 0 < dist_sq < min_dist^2.
ClaimedColliding(a, b) ==
    LET dist_sq == length_squared(dist_vec(a, b))
    IN  RLt(I(0), dist_sq) /\ RLt(dist_sq, RMul(min_dist(a, b), min_dist(a, b)))

\* The same with the basic script's lower end: 1e-6 < dist_sq < min_dist^2.
ClaimedCollidingBasic(a, b) ==
    LET dist_sq == length_squared(dist_vec(a, b))
    IN  GtEps(dist_sq) /\ RLt(dist_sq, RMul(min_dist(a, b), min_dist(a, b)))

\* A pair that is not treated as colliding is left alone, without an error.
UndetectedPairUntouched ==
    ~Colliding(script, pre[1], pre[2]) => (err = "none" /\ balls = pre)

\* C11 as amended: a pair is treated as colliding iff 0 < dist_sq < min_dist^2
\* in the ui script and iff 1e-6 < dist_sq < min_dist^2 in the basic script;
\* a pair that is not treated as colliding, coincident centres included,
\* raises no error and keeps both positions and both velocities.
C11_DetectionPerScript ==
    last.op = "collide" =>
        /\ Colliding(script, pre[1], pre[2])
               <=> IF script = "ui" THEN ClaimedColliding(pre[1], pre[2])
                   ELSE ClaimedCollidingBasic(pre[1], pre[2])
        /\ UndetectedPairUntouched

\* C11 as stated: a pair is treated as colliding iff
\* 0 < dist_sq < (radius_a + radius_b)^2 (in both scripts), and a pair that is
\* not treated as colliding raises no error and is left unchanged.
C11_DetectionAsClaimed ==
    last.op = "collide" =>
        /\ Colliding(script, pre[1], pre[2]) <=> ClaimedColliding(pre[1], pre[2])
        /\ UndetectedPairUntouched

\* Two approaching balls with coincident centres went through the pair code
\* unchanged.
C11_Witness ==
    /\ last.op = "collide"
    /\ dist_vec(pre[1], pre[2]) = Zero2
    /\ pre[1].velocity # pre[2].velocity
    /\ err = "none"
    /\ balls = pre

\* C13: a release while a body is controlled completes without error,
\* leaves no body controlled and sets that body's velocity to
\* (release position - previous pointer position) / dt, in any frame, the
\* first included.
C13_ReleaseSetsDragVelocity ==
    (last.op = "mouseup" /\ pre_drag.dragging_ball # 0) =>
        /\ err = "none"
        /\ dragging_ball = 0
        /\ balls[pre_drag.dragging_ball].velocity
               = VDivide(VSub(mouse_pos, pre_drag.last_mouse_pos), dt)

\* The balls under the pointer of the last press.
Pressed == { k \in 1..NumBalls : Hit(pre[k], mouse_pos) }

\* C14: a press within the radius of some body puts exactly one body, one
\* under the pointer, into dragging and zeroes the velocity of that body
\* only; a press that hits no body changes neither the dragged body nor any
\* body; at most one body is dragged at any moment.
C14_PressTakesOneBody ==
    /\ dragging_ball \in 0..NumBalls
    /\ last.op = "mousedown" =>
           IF Pressed # {}
           THEN /\ dragging_ball \in Pressed
                /\ balls[dragging_ball]
                       = [pre[dragging_ball] EXCEPT !.velocity = Zero2]
                /\ \A k \in 1..NumBalls : k # dragging_ball => balls[k] = pre[k]
           ELSE /\ DragState = pre_drag
                /\ balls = pre

\* A press on a point within both balls, both moving, took the first one and
\* left the second its velocity.
C14_Witness ==
    /\ last.op = "mousedown"
    /\ Pressed = 1..NumBalls
    /\ dragging_ball = 1
    /\ pre[1].velocity # Zero2
    /\ balls[1].velocity = Zero2
    /\ balls[2].velocity # Zero2

\* A velocity was changed by the last step.
VelocityChanged == \E k \in 1..NumBalls : balls[k].velocity # pre[k].velocity

\* C15: the ui script's collision counter goes up by exactly one in a pair
\* step that applies an impulse, stays as it is in every other step, and so
\* never decreases.
C15_CounterCountsImpulses ==
    [][ script = "ui" =>
          collision_count' = collision_count
              + (IF last'.op = "collide" /\ VelocityChanged' THEN 1 ELSE 0) ]_vars

\* C16: when the pair resolution of a frame starts, every body, a dragged one
\* included, has been through the wall code and lies within the world.
C16_AllInsideBeforePairs ==
    pc = "collide" => \A k \in 1..NumBalls : InsideWorld(balls[k])

\* The acceleration that gravity and friction give a ball in a frame.
FrameAcceleration(s, b) ==
    IF ~RLt(I(0), b.inv_mass) THEN Zero2
    ELSE IF Moving(s, b)
    THEN VAdd(GRAVITY, VScale(friction_force(s, b), b.inv_mass))
    ELSE GRAVITY

\* C17: the acceleration a call of update integrates is the one gravity and
\* friction give the ball in that frame, whatever acceleration it had before;
\* and when the pair resolution of a frame starts, the loop's body has run
\* for every ball that is not dragged.
C17_FreshAccelerationThenPairs ==
    /\ pc = "update" =>
           /\ last.op = "forces"
           /\ last.who = i
           /\ balls[i].acceleration = FrameAcceleration(script, balls[i])
    /\ pc = "collide" =>
           \A k \in 1..NumBalls : k # dragging_ball => k \in stepped

\* In a later frame of a run with mouse events, a ball is about to be updated
\* with an acceleration other than the one it carried from the frame before.
C17_Witness ==
    /\ pc = "update"
    /\ frame > 1
    /\ events > 1
    /\ pre[i].acceleration # Zero2
    /\ pre[i].acceleration # balls[i].acceleration

\* C18: no step of the physics loop's body changes a ball while it is
\* dragged; forces, update and wall code are never run for it.
C18_DraggedBallSkipsPhysics ==
    /\ last.op \in {"forces", "update", "walls"} => last.who # dragging_ball
    /\ (dragging_ball # 0 /\ last.op \in {"tick", "forces", "update", "walls", "skip", "draw"})
           => balls[dragging_ball] = pre[dragging_ball]

\* In a later frame the loop has passed over a ball that was dragged across
\* the left wall: it has no acceleration and is still across the wall.
C18_Witness ==
    /\ last.op = "skip"
    /\ last.who = dragging_ball
    /\ frame > 1
    /\ ~InsideWorld(balls[dragging_ball])
    /\ balls[dragging_ball].acceleration = Zero2
    /\ balls[dragging_ball] = pre[dragging_ball]

====
